---- MODULE Spec2Model ----
(***************************************************************************)
(* A model of src/src/gam/gapi/__init__.py: the retry loop of call, the    *)
(* page-size lookup of _get_max_page_size_for_api_call, process_page, the  *)
(* paging loop of get_all_pages and handle_oauth_token_error.              *)
(*                                                                         *)
(* Python values are encoded as follows.  A mapping (dict) is a function   *)
(* from its keys (strings) to integers.  None is the integer -1, the empty *)
(* string token is 0 and the continuation token handed out with page i is  *)
(* the integer i.  A message is a sequence of fragments; the fragment "."  *)
(* is a period.  An item of page p is the integer 10 * p + its position.   *)
(***************************************************************************)
EXTENDS Integers, Sequences, FiniteSets, TLC

(***************************************************************************)
(* Bounds of the model.                                                    *)
(***************************************************************************)
MaxRuns == 2
MaxPages == 2
MaxPageItems == 1
MaxFaults == 1
MaxMsgLen == 2
MaxMsgItems == 2

(***************************************************************************)
(* Constants of the program.                                               *)
(***************************************************************************)
retries == 10

None == -1
EmptyToken == 0
EmptyMap == [k \in {} |-> 0]

\* dict.get(k) with the default None
Get(m, k) == IF k \in DOMAIN m THEN m[k] ELSE None
\* m[k] = v
Put(m, k, v) == (k :> v) @@ m
\* m.update(u)
Update(m, u) == u @@ m
\* Python truthiness of a token: None and '' are falsy
Falsy(t) == t = None \/ t = EmptyToken

(***************************************************************************)
(* The tables of gam.gapi.errors and gam.var the code reads.               *)
(***************************************************************************)
ErrorReason == {"rateLimitExceeded", "notFound", "serviceNotAvailable"}
UnknownReason == "acmeFailure"
DEFAULT_RETRY_REASONS == {"rateLimitExceeded"}
ERROR_REASON_TO_EXCEPTION == {"notFound", "serviceNotAvailable"}
SERVICE_NOT_AVAILABLE == "serviceNotAvailable"
OAUTH2_TOKEN_ERRORS == {<<"access_denied">>, <<"invalid_grant: Bad Request">>}
\* what get_gapi_error_detail may hand back: (http_status, reason)
HttpStatuses == {403, 503}
ErrorStatuses == {-1, 0} \cup HttpStatuses
ErrorReasonStrings == ErrorReason \cup {UnknownReason}
\* str(e) of the RefreshError instances the runs are tried with
RefreshMessages ==
  { <<"access_denied">>,
    <<"invalid_grant: Bad Request", ".">>,
    <<"Invalid response", " 401">>,
    <<"Token has been expired or revoked", ".">>,
    <<"Bad ", "Invalid response">> }
\* GM_EXTRA_ARGS_DICT
ExtraArgs == ("prettyPrint" :> 0)

VARIABLES
  \* the arguments of the logical request, fixed by the caller
  soft_errors, throw_reasons, retry_reasons, page_args_in_body,
  callerTop, callerPassesBody,
  \* how often the caller repeats the request and how many attempts of one
  \* call the environment lets fail
  runLimit, faultLimit,
  \* the process-wide state read by the code
  currentUser,
  \* the remote service: the item count of each page and the shape of the
  \* last page's token; the discovery document of the handle
  pageSizes, lastToken, rootDesc,
  \* the handle's transport: response cache active, connection pool
  cache, connections,
  \* the body mappings on the heap: the caller's and the one setdefault made
  bodies,
  \* control: where the program is
  pc, runs,
  \* locals of call; lastFault is the kind of the last failed attempt
  n, invocations, refreshes, waits, failures, minusOnes, ending, exitCode,
  endReason, printed, response, lastFault,
  \* locals of get_all_pages
  kwargs, bodyRef, bodyAtEntry, all_items, page_token, total_items, callLog,
  served, clean,
  \* what each finished run of get_all_pages handed to the caller
  history,
  \* a function of the module applied on its own: the call with its
  \* arguments, and what the call gave back
  probe, outcome

probeVars == <<probe, outcome>>
cfgVars == <<soft_errors, throw_reasons, retry_reasons, page_args_in_body,
             callerTop, callerPassesBody, runLimit, faultLimit, currentUser,
             pageSizes, lastToken, rootDesc, probeVars>>
handleVars == <<cache, connections>>
callVars == <<n, invocations, refreshes, waits, failures, minusOnes, ending,
              exitCode, endReason, printed, response, lastFault>>
pageVars == <<kwargs, bodyRef, bodyAtEntry, all_items, page_token,
              total_items, callLog, served, clean>>
vars == <<cfgVars, handleVars, bodies, pc, runs, callVars, pageVars, history>>

(***************************************************************************)
(* The remote service: a deterministic paged listing.                      *)
(***************************************************************************)
NumPages == Len(pageSizes)
\* page.get(items, []) of page p
Items(p) == [i \in 1..pageSizes[p] |-> 10 * p + i]
\* page.get('nextPageToken') of page p
NextPageToken(p) == IF p < NumPages THEN p ELSE lastToken
\* the page the service answers a request carrying token t with
ServicePage(t) == IF Falsy(t) THEN 1 ELSE t + 1

(***************************************************************************)
(* call: the request it sends and the classification of an HttpError.      *)
(***************************************************************************)
\* parameters = dict(list(kwargs.items()) + list(extra_args.items()))
Parameters(kw) == Update(kw, ExtraArgs)

\* the body mapping kwargs['body'] refers to, {} when there is none
BodyOf(ref, heap) == IF ref = "absent" THEN EmptyMap ELSE heap[ref]

\* the page token a request carries where the service reads it
RequestToken(kw, ref, heap) ==
  IF page_args_in_body THEN Get(BodyOf(ref, heap), "pageToken")
  ELSE Get(Parameters(kw), "pageToken")

\* what is logged of a request: the token at the top level and in the body
Request(kw, ref, heap) ==
  [top |-> Get(Parameters(kw), "pageToken"),
   body |-> Get(BodyOf(ref, heap), "pageToken")]

\* a membership test that takes every reason string for a known one
is_known_error_reason_Any(reason) == reason = reason

is_known_error_reason(reason) == reason \in ErrorReason

\* a variant that backs off before it retries after a refresh
HttpErrorBranch_RefreshWaits(http_status, reason, a) ==
  IF http_status = -1 THEN (IF a # retries THEN "wait" ELSE "refresh")
  ELSE IF http_status = 0 THEN "ignore"
  ELSE IF is_known_error_reason(reason) /\ reason \in throw_reasons
    THEN IF reason \in ERROR_REASON_TO_EXCEPTION THEN "raise_typed"
         ELSE "raise_http"
  ELSE IF a # retries /\ is_known_error_reason(reason)
          /\ reason \in DEFAULT_RETRY_REASONS \cup retry_reasons
    THEN "wait"
  ELSE IF soft_errors THEN "soft"
  ELSE "exit"

\* a variant that looks at the retry set before it looks at throw_reasons
HttpErrorBranch_RetryFirst(http_status, reason, a) ==
  IF http_status = -1 THEN "refresh"
  ELSE IF http_status = 0 THEN "ignore"
  ELSE IF a # retries /\ is_known_error_reason(reason)
          /\ reason \in DEFAULT_RETRY_REASONS \cup retry_reasons
    THEN "wait"
  ELSE IF is_known_error_reason(reason) /\ reason \in throw_reasons
    THEN IF reason \in ERROR_REASON_TO_EXCEPTION THEN "raise_typed"
         ELSE "raise_http"
  ELSE IF soft_errors THEN "soft"
  ELSE "exit"

\* the branch the except HttpError clause takes at attempt a
\* a variant that makes the throw test before the status 0 test
HttpErrorBranch_ThrowBeforeIgnore(http_status, reason, a) ==
  IF http_status = -1 THEN "refresh"
  ELSE IF is_known_error_reason(reason) /\ reason \in throw_reasons
    THEN IF reason \in ERROR_REASON_TO_EXCEPTION THEN "raise_typed"
         ELSE "raise_http"
  ELSE IF http_status = 0 THEN "ignore"
  ELSE IF a # retries /\ is_known_error_reason(reason)
          /\ reason \in DEFAULT_RETRY_REASONS \cup retry_reasons
    THEN "wait"
  ELSE IF soft_errors THEN "soft"
  ELSE "exit"

HttpErrorBranch(http_status, reason, a) ==
  IF http_status = -1 THEN "refresh"
  ELSE IF http_status = 0 THEN "ignore"
  ELSE IF is_known_error_reason(reason) /\ reason \in throw_reasons
    THEN IF reason \in ERROR_REASON_TO_EXCEPTION THEN "raise_typed"
         ELSE "raise_http"
  ELSE IF a # retries /\ is_known_error_reason(reason)
          /\ reason \in DEFAULT_RETRY_REASONS \cup retry_reasons
    THEN "wait"
  ELSE IF soft_errors THEN "soft"
  ELSE "exit"

\* a warning that says 'Giving up.' at every attempt
SoftWarning_Always(a) == IF a > 0 THEN "warning: Giving up." ELSE "warning"

\* the text print_error gets at attempt a: ["", ": Giving up."][n > 1]
SoftWarning(a) == IF a > 1 THEN "warning: Giving up." ELSE "warning"

(***************************************************************************)
(* handle_oauth_token_error                                                *)
(***************************************************************************)
\* str(e).replace('.', '')
StripPeriods(msg) == SelectSeq(msg, LAMBDA c : c # ".")
\* token_error.startswith('Invalid response')
StartsWithInvalidResponse(msg) ==
  Len(msg) > 0 /\ Head(msg) = "Invalid response"
\* a handler that lets every message pass when soft errors are allowed
handle_oauth_token_error_SoftAlways(e, soft, user) ==
  LET token_error == StripPeriods(e)
  IN IF soft THEN 0
     ELSE IF token_error \in OAUTH2_TOKEN_ERRORS
             \/ StartsWithInvalidResponse(token_error)
       THEN IF user = "" THEN 12 ELSE 19
     ELSE 18

\* 0 when the handler returns to its caller, else the exit code
handle_oauth_token_error(e, soft, user) ==
  LET token_error == StripPeriods(e)
  IN IF token_error \in OAUTH2_TOKEN_ERRORS
        \/ StartsWithInvalidResponse(token_error)
       THEN IF soft THEN 0
            ELSE IF user = "" THEN 12
            ELSE 19
       ELSE 18

(***************************************************************************)
(* _get_max_page_size_for_api_call                                         *)
(***************************************************************************)
MAX_RESULTS_API_EXCEPTIONS == ("calendar.acl.list" :> 250)
\* a parameter description is truthy when present and not empty
Declares(parameters, name) ==
  name \in DOMAIN parameters /\ parameters[name] # EmptyMap
\* the value returned for the matching method; EmptyMap stands for None
MethodPageKey(a_method, api_id) ==
  IF a_method.parameters = EmptyMap
     \/ Declares(a_method.parameters, "pageSize")
     \/ ~Declares(a_method.parameters, "maxResults")
    THEN EmptyMap
    ELSE LET known_api_max == Get(MAX_RESULTS_API_EXCEPTIONS, api_id)
             max_results ==
               IF "maximum" \in DOMAIN a_method.parameters["maxResults"]
                 THEN a_method.parameters["maxResults"]["maximum"]
                 ELSE known_api_max
         IN ("maxResults" :> max_results)
\* the first method of the document whose id is api_id decides
RECURSIVE ScanMethods(_, _)
ScanMethods(methods, api_id) ==
  IF methods = <<>> THEN EmptyMap
  ELSE IF Head(methods).id = api_id THEN MethodPageKey(Head(methods), api_id)
  ELSE ScanMethods(Tail(methods), api_id)
get_max_page_size_for_api_call(desc) == ScanMethods(desc.methods, desc.api_id)

\* a variant that reads the token under a key the page does not have
process_page_NoToken(page, all, total) ==
  IF page # 0
    THEN [page_token |-> None,
          total_items |-> total + Len(Items(page)),
          all_items |-> all \o Items(page)]
    ELSE [page_token |-> None, total_items |-> total, all_items |-> all]

\* a variant that puts the items of a page in front of the aggregate
process_page_Prepend(page, all, total) ==
  IF page # 0
    THEN [page_token |-> NextPageToken(page),
          total_items |-> total + Len(Items(page)),
          all_items |-> Items(page) \o all]
    ELSE [page_token |-> None, total_items |-> total, all_items |-> all]

(***************************************************************************)
(* process_page, for the list aggregate get_all_pages keeps.  page is the  *)
(* index of the page received, 0 when call returned None.                  *)
(***************************************************************************)
process_page(page, all, total) ==
  IF page # 0
    THEN [page_token |-> NextPageToken(page),
          total_items |-> total + Len(Items(page)),
          all_items |-> all \o Items(page)]
    ELSE [page_token |-> None, total_items |-> total, all_items |-> all]

(***************************************************************************)
(* The progress message of process_page.  A value is a string or a mapping *)
(* from field names to values; a template is a sequence of pieces, some of *)
(* which are markers.                                                      *)
(***************************************************************************)
TOTAL_ITEMS_MARKER == "%%total_items%%"
FIRST_ITEM_MARKER == "%%first_item%%"
LAST_ITEM_MARKER == "%%last_item%%"

StrVal(t) == [kind |-> "str", text |-> t, fields |-> EmptyMap]
DictVal(f) == [kind |-> "dict", text |-> "", fields |-> f]
\* the AttributeError of .get on a value that is no mapping
AttributeError == [kind |-> "raised", text |-> "", fields |-> EmptyMap]
\* v.get(attr, default)
GetValue(v, attr, default) ==
  IF v.kind # "dict" THEN AttributeError
  ELSE IF attr \in DOMAIN v.fields THEN v.fields[attr]
  ELSE default
\* str(v); the text of a mapping with entries is not spelled out
Str(v) ==
  IF v.kind = "str" THEN v.text
  ELSE IF DOMAIN v.fields = {} THEN "{}"
  ELSE "{...}"
\* for attr in message_attribute: item = item.get(attr, {})
RECURSIVE Walk(_, _)
Walk(v, path) ==
  IF path = << >> THEN v
  ELSE Walk(GetValue(v, Head(path), DictVal(EmptyMap)), Tail(path))
\* message.replace(marker, text)
Replace(message, marker, text) ==
  [i \in 1..Len(message) |->
     IF message[i] = marker THEN text ELSE message[i]]
\* the message attribute: absent, one field name, or a path of field names
NoAttribute == [shape |-> "none", path |-> << >>]
FieldName(name) == [shape |-> "name", path |-> << name >>]
FieldPath(path) == [shape |-> "path", path |-> path]

\* what process_page writes to stderr after '\r', or the error it raises
show_message(page_items, total, page_message, message_attribute) ==
  IF page_message = << >>
    THEN [raised |-> FALSE, written |-> << >>]
  ELSE
    LET num_page_items == Len(page_items)
        with_total == Replace(page_message, TOTAL_ITEMS_MARKER,
                              ToString(total))
    IN IF message_attribute.path = << >>
         THEN [raised |-> FALSE, written |-> with_total]
       ELSE
         LET first_item == IF num_page_items > 0 THEN page_items[1]
                           ELSE DictVal(EmptyMap)
             last_item == IF num_page_items > 1 THEN page_items[num_page_items]
                          ELSE first_item
             first == IF message_attribute.shape = "name"
                        THEN GetValue(first_item, message_attribute.path[1],
                                      StrVal(""))
                        ELSE Walk(first_item, message_attribute.path)
             last == IF message_attribute.shape = "name"
                       THEN GetValue(last_item, message_attribute.path[1],
                                     StrVal(""))
                       ELSE Walk(last_item, message_attribute.path)
         IN IF first.kind = "raised" \/ last.kind = "raised"
              THEN [raised |-> TRUE, written |-> << >>]
              ELSE [raised |-> FALSE,
                    written |-> Replace(Replace(with_total, FIRST_ITEM_MARKER,
                                                Str(first)),
                                        LAST_ITEM_MARKER, Str(last))]

(***************************************************************************)
(* The discovery documents and requests the runs are tried with.           *)
(***************************************************************************)
Method(id, parameters) == [id |-> id, parameters |-> parameters]
TypeOnly == ("type" :> 1)
Handles ==
  { \* maxResults with a declared maximum
    [api_id |-> "directory.users.list",
     methods |-> << Method("directory.groups.list", EmptyMap),
                    Method("directory.users.list",
                           ("maxResults" :> ("maximum" :> 500))) >>],
    \* no maximum, method id in the table of known maxima
    [api_id |-> "calendar.acl.list",
     methods |-> << Method("calendar.acl.list", ("maxResults" :> TypeOnly)) >>],
    \* no maximum, method id not in the table
    [api_id |-> "directory.users.list",
     methods |-> << Method("directory.users.list",
                           ("maxResults" :> TypeOnly)) >>],
    \* a pageSize parameter beside maxResults
    [api_id |-> "directory.users.list",
     methods |-> << Method("directory.users.list",
                           ("pageSize" :> TypeOnly)
                             @@ ("maxResults" :> ("maximum" :> 500))) >>],
    \* no method with that id
    [api_id |-> "directory.users.list", methods |-> << >>] }
DefaultHandle ==
  [api_id |-> "directory.users.list",
   methods |-> << Method("directory.groups.list", EmptyMap),
                  Method("directory.users.list",
                         ("maxResults" :> ("maximum" :> 500))) >>]

PageSizeChoices ==
  UNION { [1..m -> 0..MaxPageItems] : m \in 1..MaxPages }

(***************************************************************************)
(* Steps shared by the clauses of call.                                    *)
(***************************************************************************)
Raises == {"raise_typed", "raise_http", "raise_unavailable", "raise_refresh"}
NilReturns == {"ignorable", "soft", "refresh_soft", "exhausted"}

\* what the caller of get_all_pages gets when an error propagates out of it
RaisedRun == [kind |-> "raised", items |-> << >>, calls |-> Len(callLog),
              clean |-> FALSE]

\* call leaves its loop: e says how
Finish(e, code, rsn, prt) ==
  /\ ending' = e
  /\ exitCode' = code
  /\ endReason' = rsn
  /\ printed' = prt
  /\ n' = n
  /\ pc' = IF e = "exit" THEN "aborted"
           ELSE IF e \in Raises THEN "raised"
           ELSE "page"
  /\ history' = IF e \in Raises THEN Append(history, RaisedRun) ELSE history

\* a variant whose loop has no last attempt
Continue_NoLimit ==
  /\ n' = n + 1
  /\ pc' = "call"
  /\ UNCHANGED <<ending, exitCode, endReason, printed, history>>

\* continue: the next n of range(1, retries + 1); after the last one the loop
\* ends and call returns None
Continue ==
  IF n = retries
    THEN Finish("exhausted", 0, "", printed)
    ELSE /\ n' = n + 1
         /\ pc' = "call"
         /\ UNCHANGED <<ending, exitCode, endReason, printed, history>>

\* method(**parameters).execute() is entered once more and fails
FailedAttempt ==
  /\ pc = "call"
  /\ failures < faultLimit
  /\ invocations' = invocations + 1
  /\ failures' = failures + 1
  /\ clean' = FALSE
  /\ UNCHANGED <<cfgVars, bodies, runs, kwargs, bodyRef, bodyAtEntry,
                 all_items, page_token, total_items, callLog, served>>

Host == "www.googleapis.com"

(***************************************************************************)
(* call, one action for each way an attempt can go.                        *)
(***************************************************************************)
\* return method(**parameters).execute()
ExecuteSuccess ==
  /\ pc = "call"
  /\ invocations' = invocations + 1
  /\ response' = ServicePage(RequestToken(kwargs, bodyRef, bodies))
  /\ connections' = connections \cup {Host}
  /\ Finish("success", 0, "", printed)
  /\ UNCHANGED <<cfgVars, bodies, runs, cache, refreshes, waits, failures,
                 minusOnes, lastFault, pageVars>>

\* except HttpError, the refresh of line 69 succeeding when it is reached
HttpError(http_status, reason) ==
  /\ FailedAttempt
  /\ connections' = connections \cup {Host}
  /\ LET branch == HttpErrorBranch(http_status, reason, n)
     IN /\ refreshes' = IF branch = "refresh" THEN refreshes + 1 ELSE refreshes
        /\ waits' = IF branch = "wait" THEN waits + 1 ELSE waits
        /\ CASE branch = "refresh" -> Continue
             [] branch = "ignore" -> Finish("ignorable", 0, reason, printed)
             [] branch = "raise_typed" -> Finish("raise_typed", 0, reason, printed)
             [] branch = "raise_http" -> Finish("raise_http", 0, reason, printed)
             [] branch = "wait" -> Continue
             [] branch = "soft" -> Finish("soft", 0, reason, SoftWarning(n))
             [] branch = "exit" -> Finish("exit", http_status, reason, printed)
  /\ minusOnes' = IF http_status = -1 THEN minusOnes + 1 ELSE minusOnes
  /\ lastFault' = IF http_status = -1 THEN "refresh"
                  ELSE IF http_status = 0 THEN "ignorable"
                  ELSE "http"
  /\ UNCHANGED <<cache, response>>

\* except HttpError with status -1, credentials.refresh raising RefreshError
\* inside the except clause: no clause of the same try statement catches it
HttpErrorRefreshFails ==
  /\ FailedAttempt
  /\ connections' = connections \cup {Host}
  /\ HttpErrorBranch(-1, "", n) = "refresh"
  /\ Finish("raise_refresh", 0, "", printed)
  /\ minusOnes' = minusOnes + 1
  /\ lastFault' = "refresh"
  /\ UNCHANGED <<cache, response, refreshes, waits>>

\* except RefreshError
RefreshError(e) ==
  /\ FailedAttempt
  /\ LET unavailable == SERVICE_NOT_AVAILABLE \in throw_reasons
         code == handle_oauth_token_error(e, soft_errors \/ unavailable,
                                          currentUser)
     IN IF code # 0 THEN Finish("exit", code, "", printed)
        ELSE IF unavailable
          THEN Finish("raise_unavailable", 0, SERVICE_NOT_AVAILABLE, printed)
        ELSE Finish("refresh_soft", 0, "", "user error")
  /\ lastFault' = "credentials"
  /\ UNCHANGED <<handleVars, response, refreshes, waits, minusOnes>>

\* except ValueError
ValueError ==
  /\ FailedAttempt
  /\ IF cache
       THEN cache' = FALSE /\ Continue
       ELSE cache' = cache /\ Finish("exit", 4, "", printed)
  /\ lastFault' = "value"
  /\ UNCHANGED <<connections, response, refreshes, waits, minusOnes>>

\* a handler that backs off and retries without touching the pool
ConnectionError_KeepsPool ==
  /\ FailedAttempt
  /\ IF n # retries
       THEN /\ connections' = connections
            /\ waits' = waits + 1
            /\ Continue
       ELSE /\ UNCHANGED <<connections, waits>>
            /\ Finish("exit", 4, "", printed)
  /\ lastFault' = "connection"
  /\ UNCHANGED <<cache, response, refreshes, minusOnes>>

\* except (ServerNotFoundError, RuntimeError)
ConnectionError ==
  /\ FailedAttempt
  /\ IF n # retries
       THEN /\ connections' = {}
            /\ waits' = waits + 1
            /\ Continue
       ELSE /\ UNCHANGED <<connections, waits>>
            /\ Finish("exit", 4, "", printed)
  /\ lastFault' = "connection"
  /\ UNCHANGED <<cache, response, refreshes, minusOnes>>

\* a TypeError handled like a soft error: call returns None
TypeError_ReturnsNil ==
  /\ FailedAttempt
  /\ Finish("soft", 0, "", printed)
  /\ lastFault' = "type"
  /\ UNCHANGED <<handleVars, response, refreshes, waits, minusOnes>>

\* except TypeError
TypeError ==
  /\ FailedAttempt
  /\ Finish("exit", 4, "", printed)
  /\ lastFault' = "type"
  /\ UNCHANGED <<handleVars, response, refreshes, waits, minusOnes>>

(***************************************************************************)
(* get_all_pages                                                           *)
(***************************************************************************)
\* the locals of call at its entry
EnterCall ==
  /\ n' = 1
  /\ invocations' = 0
  /\ refreshes' = 0
  /\ waits' = 0
  /\ failures' = 0
  /\ minusOnes' = 0
  /\ ending' = "running"
  /\ exitCode' = 0
  /\ endReason' = ""
  /\ printed' = ""
  /\ response' = 0
  /\ lastFault' = "none"

\* lines 331-342 and the first call of the loop
StartGetAllPages ==
  /\ pc \in {"idle", "returned", "raised"}
  /\ runs < runLimit
  /\ runs' = runs + 1
  /\ LET ref == IF callerPassesBody THEN "caller"
                ELSE IF page_args_in_body THEN "fresh"
                ELSE "absent"
         heap0 == [bodies EXCEPT !["fresh"] = EmptyMap]
         asks == /\ "maxResults" \notin DOMAIN callerTop
                 /\ "pageSize" \notin DOMAIN callerTop
                 /\ "pageSize" \notin DOMAIN BodyOf(ref, heap0)
         page_key == IF asks THEN get_max_page_size_for_api_call(rootDesc)
                     ELSE EmptyMap
         heap1 == IF page_key # EmptyMap /\ page_args_in_body
                    THEN [heap0 EXCEPT ![ref] = Update(@, page_key)]
                    ELSE heap0
         kw1 == IF page_key # EmptyMap /\ ~page_args_in_body
                  THEN Update(callerTop, page_key)
                  ELSE callerTop
     IN /\ bodyAtEntry' = bodies["caller"]
        /\ bodyRef' = ref
        /\ bodies' = heap1
        /\ kwargs' = kw1
        /\ callLog' = << Request(kw1, ref, heap1) >>
  /\ all_items' = << >>
  /\ page_token' = None
  /\ total_items' = 0
  /\ served' = << >>
  /\ clean' = TRUE
  /\ EnterCall
  /\ pc' = "call"
  /\ UNCHANGED <<cfgVars, handleVars, history>>

\* a variant that always writes the token at the top level
InjectToken_TopLevel(kw, heap, ref, tok) ==
  [kwargs |-> Put(kw, "pageToken", tok), bodies |-> heap]

\* lines 356-359: the continuation token goes into the body mapping or into
\* kwargs; the result is the new kwargs and the new heap
InjectToken(kw, heap, ref, tok) ==
  IF page_args_in_body
    THEN [kwargs |-> kw, bodies |-> [heap EXCEPT ![ref] = Put(@, "pageToken", tok)]]
    ELSE [kwargs |-> Put(kw, "pageToken", tok), bodies |-> heap]

\* lines 350-359: process_page, then return or the next call
ProcessPage ==
  /\ pc = "page"
  /\ LET page == IF ending = "success" THEN response ELSE 0
         r == process_page(page, all_items, total_items)
     IN /\ page_token' = r.page_token
        /\ total_items' = r.total_items
        /\ all_items' = r.all_items
        /\ served' = IF page # 0 THEN Append(served, page) ELSE served
        /\ IF Falsy(r.page_token)
             THEN /\ pc' = "returned"
                  /\ history' = Append(history,
                                  [kind |-> "returned", items |-> r.all_items,
                                   calls |-> Len(callLog), clean |-> clean])
                  /\ UNCHANGED <<kwargs, bodies, callLog, callVars>>
             ELSE /\ kwargs' =
                       InjectToken(kwargs, bodies, bodyRef, r.page_token).kwargs
                  /\ bodies' =
                       InjectToken(kwargs, bodies, bodyRef, r.page_token).bodies
                  /\ callLog' = Append(callLog,
                                       Request(kwargs', bodyRef, bodies'))
                  /\ EnterCall
                  /\ pc' = "call"
                  /\ UNCHANGED history
  /\ UNCHANGED <<cfgVars, handleVars, runs, bodyRef, bodyAtEntry, clean>>

(***************************************************************************)
(* The specification.                                                      *)
(***************************************************************************)
ThrowChoices == { {}, {"notFound", "rateLimitExceeded"},
                  {"serviceNotAvailable", UnknownReason} }
RetryChoices == { {}, {"notFound", UnknownReason} }
TopChoices == { ("customer" :> 7), ("customer" :> 7) @@ ("maxResults" :> 2) }
BodyChoices == { EmptyMap, ("pageSize" :> 2) }

InitLocals ==
  /\ connections = {}
  /\ pc = "idle"
  /\ runs = 0
  /\ n = 1 /\ invocations = 0 /\ refreshes = 0 /\ waits = 0 /\ failures = 0
  /\ minusOnes = 0
  /\ ending = "running" /\ exitCode = 0 /\ endReason = "" /\ printed = ""
  /\ response = 0 /\ lastFault = "none"
  /\ kwargs = EmptyMap /\ bodyRef = "absent" /\ bodyAtEntry = EmptyMap
  /\ all_items = << >> /\ page_token = None /\ total_items = 0
  /\ callLog = << >> /\ served = << >> /\ clean = TRUE
  /\ history = << >>

\* the error policy varies and every attempt of a call may fail
InitPolicy ==
  /\ soft_errors \in BOOLEAN
  /\ throw_reasons \in ThrowChoices
  /\ retry_reasons \in RetryChoices
  /\ currentUser \in {"", "user@example.com"}
  /\ cache \in BOOLEAN
  /\ runLimit = 1
  /\ faultLimit = retries
  /\ page_args_in_body = FALSE
  /\ callerTop = ("customer" :> 7)
  /\ callerPassesBody = FALSE
  /\ bodies = [caller |-> EmptyMap, fresh |-> EmptyMap]
  /\ pageSizes = << 1, 1 >>
  /\ lastToken = None
  /\ rootDesc = DefaultHandle

\* the pages of the service and the place of the page arguments vary
InitPaging ==
  /\ soft_errors = TRUE
  /\ throw_reasons = {"notFound"}
  /\ retry_reasons = {}
  /\ currentUser = ""
  /\ cache = FALSE
  /\ runLimit = MaxRuns
  /\ faultLimit = MaxFaults
  /\ page_args_in_body \in BOOLEAN
  /\ callerTop = ("customer" :> 7)
  /\ callerPassesBody \in BOOLEAN
  /\ (callerPassesBody => page_args_in_body)
  /\ bodies = [caller |-> EmptyMap, fresh |-> EmptyMap]
  /\ pageSizes \in PageSizeChoices
  /\ lastToken = None
  /\ rootDesc = DefaultHandle

\* the discovery document, the page arguments of the caller and the token of
\* the last page vary
InitRequest ==
  /\ soft_errors = FALSE
  /\ throw_reasons = {}
  /\ retry_reasons = {}
  /\ currentUser = ""
  /\ cache = FALSE
  /\ runLimit = MaxRuns
  /\ faultLimit = MaxFaults
  /\ page_args_in_body \in BOOLEAN
  /\ callerTop \in TopChoices
  /\ callerPassesBody \in BOOLEAN
  /\ bodies \in { [caller |-> b, fresh |-> EmptyMap] : b \in BodyChoices }
  /\ (~callerPassesBody => bodies["caller"] = EmptyMap)
  /\ pageSizes = << 1, 1 >>
  /\ lastToken \in {None, EmptyToken}
  /\ rootDesc \in Handles

\* no function is applied on its own
NoProbe ==
  /\ probe = [fn |-> "none", done |-> FALSE]
  /\ outcome = None

Init == InitLocals /\ NoProbe /\ (InitPolicy \/ InitPaging \/ InitRequest)

Next ==
  \/ StartGetAllPages
  \/ ExecuteSuccess
  \/ \E s \in ErrorStatuses, r \in ErrorReasonStrings : HttpError(s, r)
  \/ HttpErrorRefreshFails
  \/ \E e \in RefreshMessages : RefreshError(e)
  \/ ValueError
  \/ ConnectionError
  \/ TypeError
  \/ ProcessPage

Spec == Init /\ [][Next]_vars

(***************************************************************************)
(* handle_oauth_token_error applied on its own to every message of at most *)
(* MaxMsgLen fragments, with and without soft errors and a current user.   *)
(***************************************************************************)
\* no request is under way
Parked ==
  /\ soft_errors = FALSE
  /\ throw_reasons = {}
  /\ retry_reasons = {}
  /\ currentUser = ""
  /\ cache = FALSE
  /\ runLimit = 0
  /\ faultLimit = 0
  /\ page_args_in_body = FALSE
  /\ callerTop = EmptyMap
  /\ callerPassesBody = FALSE
  /\ bodies = [caller |-> EmptyMap, fresh |-> EmptyMap]
  /\ pageSizes = << 1 >>
  /\ lastToken = None
  /\ rootDesc = DefaultHandle

Fragments == { "access_denied", "invalid_grant: Bad Request",
               "Invalid response", " 401", "." }
RECURSIVE SeqsUpTo(_, _)
SeqsUpTo(S, len) ==
  IF len = 0 THEN { << >> }
  ELSE LET shorter == SeqsUpTo(S, len - 1)
       IN shorter \cup { Append(q, x) : q \in shorter, x \in S }
TokenMessages == SeqsUpTo(Fragments, MaxMsgLen)

InitToken ==
  /\ InitLocals
  /\ Parked
  /\ probe \in { [fn |-> "handle_oauth_token_error", done |-> FALSE,
                   e |-> m, soft |-> s, user |-> u] :
                     m \in TokenMessages, s \in BOOLEAN,
                     u \in {"", "user@example.com"} }
  /\ outcome = None

HandleTokenError ==
  /\ probe.fn = "handle_oauth_token_error"
  /\ ~probe.done
  /\ outcome' = handle_oauth_token_error(probe.e, probe.soft, probe.user)
  /\ probe' = [probe EXCEPT !.done = TRUE]
  /\ UNCHANGED <<soft_errors, throw_reasons, retry_reasons, page_args_in_body,
                 callerTop, callerPassesBody, runLimit, faultLimit,
                 currentUser, pageSizes, lastToken, rootDesc, handleVars,
                 bodies, pc, runs, callVars, pageVars, history>>

NextToken == HandleTokenError

SpecToken == InitToken /\ [][NextToken]_vars

(***************************************************************************)
(* The progress message of process_page on its own: pages of at most       *)
(* MaxMsgItems items, the templates of got_total_items_msg and             *)
(* got_total_items_first_last_msg, and the shapes of message_attribute.    *)
(***************************************************************************)
Alice ==
  DictVal(("primaryEmail" :> StrVal("alice@example.com"))
            @@ ("name" :> DictVal("fullName" :> StrVal("Alice A"))))
Bob == DictVal("primaryEmail" :> StrVal("bob@example.com"))
\* a page that is None, and pages with a list of items
PageChoices ==
  { [present |-> FALSE, items |-> << >>] }
    \cup { [present |-> TRUE, items |-> q] :
             q \in SeqsUpTo({Alice, Bob}, MaxMsgItems) }
\* got_total_items_msg('Users', '...'), got_total_items_first_last_msg('Users')
TemplateChoices ==
  { << >>,
    << "Got ", TOTAL_ITEMS_MARKER, " Users", "..." >>,
    << "Got ", TOTAL_ITEMS_MARKER, " Users", ": ", FIRST_ITEM_MARKER, " - ",
       LAST_ITEM_MARKER, "\n" >> }
AttributeChoices ==
  { NoAttribute, FieldName("primaryEmail"), FieldPath(<< >>),
    FieldPath(<< "name", "fullName" >>),
    FieldPath(<< "primaryEmail", "domain" >>) }

InitMessage ==
  /\ InitLocals
  /\ Parked
  /\ probe \in { [fn |-> "process_page", done |-> FALSE, page |-> p,
                   total_items |-> t, page_message |-> m,
                   message_attribute |-> a] :
                     p \in PageChoices, t \in {0, 3},
                     m \in TemplateChoices, a \in AttributeChoices }
  /\ outcome = [raised |-> FALSE, written |-> << >>, total_items |-> 0]

ProcessPageMessage ==
  /\ probe.fn = "process_page"
  /\ ~probe.done
  /\ LET total == probe.total_items + Len(probe.page.items)
         shown == show_message(probe.page.items, total, probe.page_message,
                               probe.message_attribute)
     IN outcome' = [raised |-> shown.raised, written |-> shown.written,
                    total_items |-> total]
  /\ probe' = [probe EXCEPT !.done = TRUE]
  /\ UNCHANGED <<soft_errors, throw_reasons, retry_reasons, page_args_in_body,
                 callerTop, callerPassesBody, runLimit, faultLimit,
                 currentUser, pageSizes, lastToken, rootDesc, handleVars,
                 bodies, pc, runs, callVars, pageVars, history>>

NextMessage == ProcessPageMessage

SpecMessage == InitMessage /\ [][NextMessage]_vars

(***************************************************************************)
(* Properties of call.                                                     *)
(***************************************************************************)
\* the reasons call backs off and retries on
RetryEligible(reason) ==
  reason \in ErrorReason /\ reason \in DEFAULT_RETRY_REASONS \cup retry_reasons
\* the failed attempts of the current call that were not credential refreshes
NonRefreshFailures == failures - minusOnes

\* C1: an attempt classified -1 consumes no retry attempt.  Whenever call has
\* left its loop without a result (ten attempts used up), or has given up on an
\* HTTP error whose reason is retry-eligible and not to be thrown, ten
\* non-refresh failures have occurred: refreshes alone never end the call.
C1_RefreshConsumesNoAttempt ==
  /\ ending = "exhausted" => NonRefreshFailures >= retries
  /\ (ending \in {"soft", "exit"} /\ RetryEligible(endReason)
        /\ endReason \notin throw_reasons)
       => NonRefreshFailures >= retries

\* C2: k failures classified -1 (k in 0..9), each followed by a successful
\* refresh, and then a success: call returns the response of the service after
\* exactly k refreshes and k + 1 invocations, with no backoff wait, nothing
\* printed and no exit; and while such failures are all that happened and
\* fewer than ten of them, call has not ended any other way.
C2_RefreshThenSuccess ==
  /\ (ending = "success" /\ failures = minusOnes)
       => /\ minusOnes \in 0..9
          /\ refreshes = minusOnes
          /\ invocations = minusOnes + 1
          /\ waits = 0
          /\ printed = ""
          /\ exitCode = 0
          /\ pc # "aborted"
          /\ response = ServicePage(RequestToken(kwargs, bodyRef, bodies))
  /\ (failures = minusOnes /\ ending \notin {"running", "success", "raise_refresh"})
       => (ending = "exhausted" /\ minusOnes = retries)
C2_NineRefreshesThenSuccess ==
  /\ pc = "page"
  /\ ending = "success"
  /\ failures = 9
  /\ minusOnes = 9
  /\ refreshes = 9

\* C3: an HTTP error (status neither -1 nor 0) whose reason is in throw_reasons
\* and in the retry set is raised on the attempt it occurs in, whatever the
\* attempt number: the step waits for no backoff, starts no further attempt and
\* ends the call with that reason raised.
C3_ThrowBeforeRetry ==
  [][\A s \in HttpStatuses, r \in ErrorReason :
       (r \in throw_reasons /\ RetryEligible(r) /\ HttpError(s, r))
         => /\ pc' = "raised"
            /\ ending' \in {"raise_typed", "raise_http"}
            /\ endReason' = r
            /\ waits' = waits
            /\ n' = n]_vars
C3_ThrownOnTenthAttempt ==
  /\ pc = "raised"
  /\ ending \in {"raise_typed", "raise_http"}
  /\ endReason \in throw_reasons
  /\ RetryEligible(endReason)
  /\ n = retries
  /\ waits = 9

\* C4: one call invokes the operation at most ten times: while it runs, the
\* attempt number is one more than the invocations made and at most ten, so a
\* new call starts at attempt 1, and after the tenth invocation the call has
\* ended (returned, raised or exited).
C4_AtMostTenInvocations ==
  /\ invocations \in 0..retries
  /\ pc = "call" => (n = invocations + 1 /\ n <= retries /\ ending = "running")
  /\ invocations = retries => (pc # "call" /\ ending # "running")
C4_SecondCallUsesTenInvocations ==
  /\ Len(callLog) = 2
  /\ invocations = retries
  /\ ending = "exhausted"

(***************************************************************************)
(* Properties of get_all_pages.                                            *)
(***************************************************************************)
RECURSIVE Flatten(_)
\* the items of the pages ps, page after page
Flatten(ps) == IF ps = << >> THEN << >> ELSE Items(Head(ps)) \o Flatten(Tail(ps))
RECURSIVE SumSizes(_)
SumSizes(ps) == IF ps = << >> THEN 0 ELSE pageSizes[Head(ps)] + SumSizes(Tail(ps))
LastRun == history[Len(history)]
\* the page tokens the request of the caller carries when a run begins
EntryTop == Get(callerTop, "pageToken")
EntryBody == IF bodyRef = "caller" THEN Get(bodyAtEntry, "pageToken") ELSE None
EntryToken == IF page_args_in_body THEN EntryBody ELSE EntryTop

\* C5 as stated: get_all_pages returns an aggregate only after a call whose
\* response was a page without continuation token.
C5_ReturnsOnlyAfterLastPage ==
  pc = "returned"
    => /\ ending = "success"
       /\ response # 0
       /\ NextPageToken(response) \in {None, EmptyToken}

\* C5 as amended: get_all_pages returns an aggregate after a call whose
\* response was a page without continuation token, or after a call that
\* returned None (ignorable, soft error, soft refresh failure, attempts used
\* up); in the second case the aggregate holds the pages merged before that
\* call.  While the loop goes on, every call so far gave a page with a token.
C5_ReturnsAfterLastPageOrNil ==
  /\ pc = "returned"
       => /\ \/ /\ ending = "success"
                /\ response # 0
                /\ NextPageToken(response) \in {None, EmptyToken}
                /\ Len(served) = Len(callLog)
             \/ /\ ending \in NilReturns
                /\ Len(served) = Len(callLog) - 1
          /\ LastRun.kind = "returned"
          /\ LastRun.items = Flatten(served)
  /\ pc = "call"
       => /\ Len(served) = Len(callLog) - 1
          /\ \A i \in 1..Len(served) :
               NextPageToken(served[i]) \notin {None, EmptyToken}
C5_NilOnSecondPageReturnsFirst ==
  /\ pc = "returned"
  /\ ending \in NilReturns
  /\ Len(callLog) = 2
  /\ served = << 1 >>
  /\ LastRun.items = Items(1)
  /\ LastRun.items # << >>

\* C6: the aggregate is the concatenation of the items of the pages received,
\* in the order the service gave them, each page once; the running total is
\* the sum of their item counts and the length of the aggregate.  A run in
\* which every call gave a page returns the pages from the one the entry token
\* selects to the last one.
C6_AggregateIsConcatenation ==
  /\ total_items = Len(all_items)
  /\ total_items = SumSizes(served)
  /\ all_items = Flatten(served)
  /\ \A i \in 1..(Len(served) - 1) : served[i + 1] = served[i] + 1
  /\ \A i, j \in 1..Len(all_items) : i # j => all_items[i] # all_items[j]
  /\ (pc = "returned" /\ Len(served) = Len(callLog))
       => /\ LastRun.items = Flatten(served)
          /\ served[1] = ServicePage(EntryToken)
          /\ served[Len(served)] = NumPages
C6_RetriedPageMergedOnce ==
  /\ pc = "returned"
  /\ ending = "success"
  /\ failures > 0
  /\ waits > 0
  /\ served = << 1, 2 >>
  /\ LastRun.items = << 11, 21 >>
  /\ total_items = 2

\* C7: the first call of a run carries the page tokens of the caller's request
\* and nothing injected; call i > 1 carries the token of the page call i - 1
\* received, in the body mapping when page_args_in_body is set and at the top
\* level otherwise; calls are made one at a time, and a run that starts without
\* token and gets a page from every call makes as many calls as the service
\* has pages.
C7_TokenOfPreviousPage ==
  /\ Len(served) <= Len(callLog)
  /\ Len(callLog) <= Len(served) + 1
  /\ pc # "idle" => callLog[1] = [top |-> EntryTop, body |-> EntryBody]
  /\ \A i \in 2..Len(callLog) :
       LET tok == NextPageToken(served[i - 1])
       IN /\ tok \notin {None, EmptyToken}
          /\ callLog[i] = IF page_args_in_body
                            THEN [top |-> EntryTop, body |-> tok]
                            ELSE [top |-> tok, body |-> EntryBody]
  /\ (pc = "returned" /\ Len(served) = Len(callLog) /\ Falsy(EntryToken))
       => /\ Len(callLog) = NumPages
          /\ served = [i \in 1..NumPages |-> i]
C7_SecondCallCarriesTokenInBody ==
  /\ pc = "returned"
  /\ page_args_in_body
  /\ NumPages = 2
  /\ Len(callLog) = 2
  /\ callLog[1] = [top |-> None, body |-> None]
  /\ callLog[2] = [top |-> None, body |-> 1]
  /\ clean

\* C8: when get_all_pages has returned or raised, the body mapping the caller
\* passed in holds what it held when the run began.
C8_CallerBodyUntouched ==
  (pc \in {"returned", "raised"} /\ callerPassesBody)
    => bodies["caller"] = bodyAtEntry

\* C9: two runs with the same inputs, each answered by the service without a
\* failure, give the same aggregate with the same number of calls, and each
\* starts with the first page.
C9_SameResultTwice ==
  /\ \A i, j \in 1..Len(history) :
       (history[i].kind = "returned" /\ history[j].kind = "returned"
          /\ history[i].clean /\ history[j].clean)
         => /\ history[i].items = history[j].items
            /\ history[i].calls = history[j].calls
  /\ (clean /\ served # << >> /\ \A i \in 1..Len(history) : history[i].clean)
       => served[1] = 1

\* C10: no RefreshError leaves call unhandled: a refresh failure ends call with
\* None, with the service-not-available error or with exit code 12, 19 or 18.
C10_RefreshFailureHandled ==
  /\ ending # "raise_refresh"
  /\ ending = "raise_unavailable" => SERVICE_NOT_AVAILABLE \in throw_reasons
  /\ ending = "refresh_soft"
       => (soft_errors /\ SERVICE_NOT_AVAILABLE \notin throw_reasons)
  /\ (ending = "exit" /\ exitCode \in {12, 19})
       => (~soft_errors /\ SERVICE_NOT_AVAILABLE \notin throw_reasons)

(***************************************************************************)
(* Properties of handle_oauth_token_error.                                 *)
(***************************************************************************)
\* the message without its periods, fragment by fragment
RECURSIVE WithoutPeriods(_)
WithoutPeriods(msg) ==
  IF msg = << >> THEN << >>
  ELSE IF Head(msg) = "." THEN WithoutPeriods(Tail(msg))
  ELSE << Head(msg) >> \o WithoutPeriods(Tail(msg))
\* a recognized message: in the token-error table once its periods are
\* stripped, or then starting with 'Invalid response'
RecognizedTokenError(msg) ==
  \/ \E t \in OAUTH2_TOKEN_ERRORS : WithoutPeriods(msg) = t
  \/ \E rest \in TokenMessages :
        WithoutPeriods(msg) = << "Invalid response" >> \o rest

\* C11: handle_oauth_token_error returns to its caller exactly when the
\* message is recognized and soft errors are allowed; a recognized message
\* without soft errors ends the process with exit code 12 when no current user
\* is set and 19 when one is set; an unrecognized message ends it with exit
\* code 18 whether or not soft errors are allowed.
C11_TokenErrorOutcomes ==
  (probe.fn = "handle_oauth_token_error" /\ probe.done)
    => /\ (RecognizedTokenError(probe.e) /\ probe.soft) => outcome = 0
       /\ (RecognizedTokenError(probe.e) /\ ~probe.soft /\ probe.user = "")
            => outcome = 12
       /\ (RecognizedTokenError(probe.e) /\ ~probe.soft /\ probe.user # "")
            => outcome = 19
       /\ ~RecognizedTokenError(probe.e) => outcome = 18
       /\ outcome = 0 => (RecognizedTokenError(probe.e) /\ probe.soft)
\* an unrecognized message ended the process with 18 although soft errors
\* were allowed
C11_UnrecognizedAbortsWhenSoft ==
  /\ probe.fn = "handle_oauth_token_error"
  /\ probe.done
  /\ probe.e = << "access_denied", " 401" >>
  /\ probe.soft
  /\ outcome = 18

(***************************************************************************)
(* Properties of the exception handlers of call.                           *)
(***************************************************************************)
\* C12: a TypeError on the call for any page ends the process with exit code
\* 4 in that step: no backoff wait, no further attempt, nothing handed to the
\* caller; and nothing happens after it, so get_all_pages never returns and
\* the pages gathered so far never reach the caller.
C12_TypeErrorAborts ==
  [][ /\ TypeError => /\ pc' = "aborted"
                      /\ ending' = "exit"
                      /\ exitCode' = 4
                      /\ waits' = waits
                      /\ n' = n
                      /\ history' = history
      /\ lastFault # "type" ]_vars
\* the call for the second page hit a TypeError after the first page had been
\* gathered
C12_TypeErrorOnSecondPage ==
  /\ pc = "aborted"
  /\ lastFault = "type"
  /\ exitCode = 4
  /\ Len(callLog) = 2
  /\ Len(all_items) > 0
  /\ history = << >>

\* C13: an HTTP error (status neither -1 nor 0) whose reason string is not a
\* known reason ends call on the attempt it occurs in, also when the string is
\* listed in throw_reasons or retry_reasons: no backoff wait, no further
\* attempt and nothing raised; with soft_errors a warning is printed and None
\* is returned, without soft_errors the process ends with the HTTP status as
\* exit code.
C13_UnknownReasonSurfaced ==
  [][ \A s \in HttpStatuses :
        HttpError(s, UnknownReason)
          => /\ waits' = waits
             /\ n' = n
             /\ history' = history
             /\ soft_errors
                  => /\ ending' = "soft"
                     /\ pc' = "page"
                     /\ printed' \in {"warning", "warning: Giving up."}
                     /\ exitCode' = 0
             /\ ~soft_errors
                  => /\ ending' = "exit"
                     /\ pc' = "aborted"
                     /\ exitCode' = s ]_vars
\* an unknown reason listed in throw_reasons and in retry_reasons ended call
\* with a warning on the first attempt
C13_UnknownListedTwiceSoft ==
  /\ ending = "soft"
  /\ endReason = UnknownReason
  /\ UnknownReason \in throw_reasons
  /\ UnknownReason \in retry_reasons
  /\ n = 1
  /\ printed = "warning"

(***************************************************************************)
(* Properties of the page-size lookup.                                     *)
(***************************************************************************)
\* the maximum the lookup is to give for a discovery document: the declared
\* maximum of maxResults, else the entry of the table of known maxima, else
\* None; None as well when the method has no maxResults or has a pageSize
ExpectedMaxResults(desc) ==
  LET found == { i \in 1..Len(desc.methods) :
                   desc.methods[i].id = desc.api_id }
  IN IF found = {} THEN None
     ELSE LET first == CHOOSE i \in found : \A j \in found : i <= j
              parameters == desc.methods[first].parameters
          IN IF ~Declares(parameters, "maxResults")
                \/ Declares(parameters, "pageSize")
               THEN None
             ELSE IF "maximum" \in DOMAIN parameters["maxResults"]
               THEN parameters["maxResults"]["maximum"]
             ELSE IF desc.api_id \in DOMAIN MAX_RESULTS_API_EXCEPTIONS
               THEN MAX_RESULTS_API_EXCEPTIONS[desc.api_id]
             ELSE None
\* the caller gave no page size of its own
CallerGaveNoPageSize ==
  /\ "maxResults" \notin DOMAIN callerTop
  /\ "pageSize" \notin DOMAIN callerTop
  /\ callerPassesBody => "pageSize" \notin DOMAIN bodyAtEntry

\* C14: when the caller gave no page size, get_all_pages sends as maxResults
\* the maximum declared in the discovery document, else the entry of the table
\* of known maxima; when there is neither (or the method takes no maxResults,
\* or takes a pageSize) the lookup gives None and no maxResults parameter is
\* sent at all.
C14_MaxResultsOrNothing ==
  (pc # "idle" /\ CallerGaveNoPageSize)
    => LET target == IF page_args_in_body THEN BodyOf(bodyRef, bodies)
                     ELSE kwargs
           expected == ExpectedMaxResults(rootDesc)
       IN IF expected = None
            THEN "maxResults" \notin DOMAIN target
            ELSE /\ "maxResults" \in DOMAIN target
                 /\ target["maxResults"] = expected

(***************************************************************************)
(* Properties of the progress message.                                     *)
(***************************************************************************)
\* C15: for a page with no items (or no page at all), a template and a
\* message attribute, process_page raises no error and writes the template
\* with the first-item and the last-item marker each replaced by the empty
\* string, whether the attribute is one field name or a path of field names.
C15_EmptyPageMarkersEmpty ==
  (/\ probe.fn = "process_page"
   /\ probe.done
   /\ probe.page.items = << >>
   /\ probe.page_message # << >>
   /\ probe.message_attribute.path # << >>)
    => /\ ~outcome.raised
       /\ Len(outcome.written) = Len(probe.page_message)
       /\ \A i \in 1..Len(probe.page_message) :
            probe.page_message[i] \in {FIRST_ITEM_MARKER, LAST_ITEM_MARKER}
              => outcome.written[i] = ""

(***************************************************************************)
(* Properties of the HTTP error branch of call.                            *)
(***************************************************************************)
\* C16: an HTTP error with a known reason that is not in throw_reasons and a
\* status that is neither -1 nor 0 is retried after a backoff wait exactly
\* when the attempt number is below 10 and the reason is in retry_reasons or
\* in the default retry set.  Otherwise call ends on that attempt: with
\* soft_errors it prints a warning, marked 'Giving up.' exactly when the
\* attempt number is above 1, and returns None; without soft_errors the
\* process ends with the HTTP status as exit code.
C16_RetryOrGiveUp ==
  [][ \A s \in HttpStatuses, r \in ErrorReason \ throw_reasons :
        HttpError(s, r)
          => IF n < 10 /\ r \in retry_reasons \cup DEFAULT_RETRY_REASONS
               THEN /\ waits' = waits + 1
                    /\ n' = n + 1
                    /\ pc' = "call"
                    /\ ending' = "running"
                    /\ printed' = printed
               ELSE /\ waits' = waits
                    /\ n' = n
                    /\ history' = history
                    /\ soft_errors
                         => /\ ending' = "soft"
                            /\ pc' = "page"
                            /\ exitCode' = 0
                            /\ printed' = IF n > 1 THEN "warning: Giving up."
                                          ELSE "warning"
                    /\ ~soft_errors
                         => /\ ending' = "exit"
                            /\ pc' = "aborted"
                            /\ exitCode' = s ]_vars
\* nine backoff waits, then the tenth attempt gave up with the marked warning
C16_GaveUpOnTenthAttempt ==
  /\ ending = "soft"
  /\ lastFault = "http"
  /\ endReason = "rateLimitExceeded"
  /\ endReason \notin throw_reasons
  /\ n = 10
  /\ waits = 9
  /\ printed = "warning: Giving up."

\* C17: an HTTP error classified with status 0 makes call return None on that
\* attempt, whatever the reason, also a reason in throw_reasons or in the
\* retry set: nothing is raised, no backoff wait and no further attempt
\* follow, nothing is printed and the process does not end.
C17_StatusZeroReturnsNil ==
  [][ \A r \in ErrorReasonStrings :
        HttpError(0, r)
          => /\ ending' = "ignorable"
             /\ pc' = "page"
             /\ history' = history
             /\ waits' = waits
             /\ refreshes' = refreshes
             /\ n' = n
             /\ printed' = printed
             /\ exitCode' = 0 ]_vars
\* a status 0 error whose reason is in throw_reasons and in retry_reasons made
\* call return None on the first attempt
C17_IgnoredThrowReason ==
  /\ ending = "ignorable"
  /\ lastFault = "ignorable"
  /\ endReason = "notFound"
  /\ endReason \in throw_reasons
  /\ endReason \in retry_reasons
  /\ pc = "page"
  /\ n = 1
  /\ printed = ""

(***************************************************************************)
(* Properties of the transport-level handlers of call.                     *)
(***************************************************************************)
\* C18: a ValueError while the response cache is active makes call set the
\* cache to None and invoke the operation again, at every attempt number from
\* 1 to 10; a ValueError while no cache is active ends the process with exit
\* code 4.
C18_CacheClearedAndRetried ==
  [][ ValueError
        => IF cache
             THEN /\ cache' = FALSE
                  /\ pc' = "call"
                  /\ ending' = "running"
             ELSE /\ pc' = "aborted"
                  /\ exitCode' = 4 ]_vars

\* C19: a connection-level failure at an attempt below the tenth empties the
\* connection pool, waits for the backoff and leads to a further attempt; at
\* the tenth attempt the process ends with exit code 4 and the pool is left as
\* it was.  soft_errors changes neither.
C19_ConnectionFailure ==
  [][ ConnectionError
        => IF n < 10
             THEN /\ connections' = {}
                  /\ waits' = waits + 1
                  /\ n' = n + 1
                  /\ pc' = "call"
                  /\ ending' = "running"
             ELSE /\ pc' = "aborted"
                  /\ ending' = "exit"
                  /\ exitCode' = 4
                  /\ connections' = connections
                  /\ waits' = waits ]_vars
\* with soft_errors set, the tenth attempt failed at connection level while
\* the pool held a connection: the process ended and the pool still holds it
C19_TenthAttemptLeavesPool ==
  /\ pc = "aborted"
  /\ lastFault = "connection"
  /\ exitCode = 4
  /\ n = 10
  /\ waits = 9
  /\ connections = {Host}
  /\ soft_errors

\* C20: without soft_errors and without SERVICE_NOT_AVAILABLE in throw_reasons
\* call returns None only when the error of its last attempt was classified
\* with status 0; every other sequence of attempts ends with a response, a
\* raised error or the end of the process.
C20_NilOnlyWhenIgnorable ==
  (/\ ~soft_errors
   /\ SERVICE_NOT_AVAILABLE \notin throw_reasons
   /\ ending \in NilReturns)
    => (ending = "ignorable" /\ lastFault = "ignorable")

====
